---- MODULE Spec2Model ----
(***************************************************************************)
(* A model of my-json-database (src/index.js): a JSON document held in     *)
(* memory, addressed by dot-separated keys, and written to a backing file  *)
(* after every mutation.                                                   *)
(*                                                                         *)
(* JavaScript strings are sequences of one-character strings, so that      *)
(* key.split('.'), string concatenation (+=), String.prototype.indexOf and *)
(* the string-to-number conversion (-=) are computed, not assumed.         *)
(* JavaScript values are tagged records; the tag field t sorts first, so   *)
(* values of different types compare unequal without comparing payloads.   *)
(***************************************************************************)
EXTENDS Integers, Sequences, FiniteSets, TLC

VARIABLES
    data,     \* this.data: the in-memory document
    file,     \* the backing file at this.jsonFilePath: [exists, text]
    last,     \* the last call a client made: [op, key, arg, thrown]
    old,      \* this.data as it was when that call began
    oldFile,  \* the backing file as it was when that call began
    calls,    \* how many calls have been made
    inserted, \* the top-level keys of this.data in the order they were inserted
    options,  \* this.options.backups: [enabled]
    dirs,     \* the directories that exist, of those the store may create
    snapshots,\* the files in the backup directories: a set of [dir, time, text]
    running,  \* the process that holds the store is alive
    now       \* Date.now()

vars == <<data, file, last, old, oldFile, calls, inserted, options, dirs,
          snapshots, running, now>>

(***************************************************************************)
(* Bounds of the model.                                                    *)
(***************************************************************************)
MaxCalls == 2

-----------------------------------------------------------------------------
(***************************************************************************)
(* Strings.                                                                *)
(***************************************************************************)
Digits == <<"0", "1", "2", "3", "4", "5", "6", "7", "8", "9">>

IsDigit(c) == \E i \in 1..10 : Digits[i] = c

DigitVal(c) == (CHOOSE i \in 1..10 : Digits[i] = c) - 1

RECURSIVE NatToChars(_)
NatToChars(n) ==
    IF n < 10 THEN <<Digits[n + 1]>>
    ELSE NatToChars(n \div 10) \o <<Digits[(n % 10) + 1]>>

\* Number.prototype.toString for the integers of the model.
IntToChars(n) == IF n < 0 THEN <<"-">> \o NatToChars(0 - n) ELSE NatToChars(n)

RECURSIVE CharsToNat(_)
CharsToNat(s) ==
    IF Len(s) = 0 THEN 0
    ELSE 10 * CharsToNat(SubSeq(s, 1, Len(s) - 1)) + DigitVal(s[Len(s)])

AllDigits(s) == Len(s) > 0 /\ \A i \in 1..Len(s) : IsDigit(s[i])

\* A canonical array index ("0", "1", "12", not "01"): such property names are
\* enumerated first, in ascending numeric order, by Object.keys and JSON.stringify.
IsIndex(s) == AllDigits(s) /\ (Len(s) = 1 \/ s[1] # "0")

\* String.prototype.split('.')
RECURSIVE SplitFrom(_, _, _)
SplitFrom(s, i, cur) ==
    IF i > Len(s) THEN <<cur>>
    ELSE IF s[i] = "." THEN <<cur>> \o SplitFrom(s, i + 1, <<>>)
    ELSE SplitFrom(s, i + 1, Append(cur, s[i]))

split(key) == SplitFrom(key, 1, <<>>)

\* String.prototype.indexOf(search): the 0-based position of the first
\* occurrence of search in s, or -1.
StrIndexOf(s, search) ==
    LET hits == {i \in 0..(Len(s) - Len(search)) :
                    SubSeq(s, i + 1, i + Len(search)) = search}
    IN IF hits = {} THEN -1 ELSE CHOOSE i \in hits : \A j \in hits : i <= j

\* The property names used by the model.
K_a == <<"a">>
K_b == <<"b">>
K_1 == <<"1">>
K_ab == <<"a", ".", "b">>
K_length == <<"l", "e", "n", "g", "t", "h">>
K_constructor == <<"c", "o", "n", "s", "t", "r", "u", "c", "t", "o", "r">>
K_enabled == <<"e", "n", "a", "b", "l", "e", "d">>
K_path == <<"p", "a", "t", "h">>
K_join == <<"j", "o", "i", "n">>

-----------------------------------------------------------------------------
(***************************************************************************)
(* JavaScript values.                                                      *)
(***************************************************************************)
Undefined == [t |-> "undefined"]
Null == [t |-> "null"]
NaN == [t |-> "NaN"]
Bool(b) == [t |-> "boolean", v |-> b]
Num(n) == [t |-> "number", v |-> n]
Str(s) == [t |-> "string", v |-> s]
\* An array: its elements (a hole reads as undefined and is held as Undefined)
\* and its non-index own properties, as <<name, value>> pairs.
Arr(elems, props) == [t |-> "array", v |-> elems, x |-> props]
\* An object: its own properties as <<name, value>> pairs in own-key order.
Obj(props) == [t |-> "object", v |-> props]
\* A built-in function found on a prototype chain (Object, Array, String, ...).
Fn(name) == [t |-> "function", v |-> name]

EmptyObj == Obj(<<>>)
EmptyArr == Arr(<<>>, <<>>)

IsObj(x) == x.t = "object"
IsArr(x) == x.t = "array"
IsNullish(x) == x.t \in {"undefined", "null"}

\* typeof x
typeof(x) ==
    CASE x.t = "undefined" -> "undefined"
      [] x.t = "boolean" -> "boolean"
      [] x.t \in {"number", "NaN"} -> "number"
      [] x.t = "string" -> "string"
      [] x.t = "function" -> "function"
      [] OTHER -> "object"

\* ToBoolean: what !x and x && y test.
Truthy(x) ==
    CASE x.t \in {"undefined", "null", "NaN"} -> FALSE
      [] x.t = "boolean" -> x.v
      [] x.t = "number" -> x.v # 0
      [] x.t = "string" -> Len(x.v) > 0
      [] OTHER -> TRUE

\* Strict equality (===, Array.prototype.indexOf) on the values a caller passes
\* as elements: primitives compare by value, NaN equals nothing.  Objects and
\* arrays compare by identity; a caller's fresh literal is identical to nothing
\* stored.
StrictEq(x, y) ==
    /\ x.t \notin {"NaN", "object", "array"}
    /\ x = y

(***************************************************************************)
(* Property lists: <<name, value>> pairs in own-key order.                 *)
(***************************************************************************)
HasKey(props, k) == \E i \in 1..Len(props) : props[i][1] = k

KeyPos(props, k) == CHOOSE i \in 1..Len(props) : props[i][1] = k

Keys(props) == [i \in 1..Len(props) |-> props[i][1]]

\* Where a new property named k goes: integer-like names first, ascending,
\* then the other names in insertion order.
InsertPos(props, k) ==
    IF IsIndex(k)
    THEN Cardinality({i \in 1..Len(props) :
                         IsIndex(props[i][1])
                         /\ CharsToNat(props[i][1]) < CharsToNat(k)}) + 1
    ELSE Len(props) + 1

PropsPut(props, k, val) ==
    IF HasKey(props, k)
    THEN [props EXCEPT ![KeyPos(props, k)] = <<k, val>>]
    ELSE LET p == InsertPos(props, k)
         IN SubSeq(props, 1, p - 1) \o << <<k, val>> >> \o SubSeq(props, p, Len(props))

PropsDel(props, k) ==
    IF HasKey(props, k)
    THEN LET p == KeyPos(props, k)
         IN SubSeq(props, 1, p - 1) \o SubSeq(props, p + 1, Len(props))
    ELSE props

PropsGet(props, k) == props[KeyPos(props, k)][2]

-----------------------------------------------------------------------------
(***************************************************************************)
(* Conversions: ToString, ToNumber, and the + and - operators.             *)
(***************************************************************************)
ObjectObjectChars ==
    <<"[", "o", "b", "j", "e", "c", "t", " ", "O", "b", "j", "e", "c", "t", "]">>

FunctionChars(name) ==
    <<"f", "u", "n", "c", "t", "i", "o", "n", " ">> \o name
    \o <<"(", ")", " ", "{", " ", "[", "n", "a", "t", "i", "v", "e", " ",
         "c", "o", "d", "e", "]", " ", "}">>

\* ToString(x); an array is joined with ",", null and undefined elements
\* giving the empty string.
RECURSIVE ToStr(_)
RECURSIVE JoinFrom(_, _)
JoinFrom(elems, i) ==
    IF i > Len(elems) THEN <<>>
    ELSE (IF i > 1 THEN <<",">> ELSE <<>>)
         \o (IF IsNullish(elems[i]) THEN <<>> ELSE ToStr(elems[i]))
         \o JoinFrom(elems, i + 1)

ToStr(x) ==
    CASE x.t = "undefined" -> <<"u", "n", "d", "e", "f", "i", "n", "e", "d">>
      [] x.t = "null" -> <<"n", "u", "l", "l">>
      [] x.t = "NaN" -> <<"N", "a", "N">>
      [] x.t = "boolean" -> IF x.v THEN <<"t", "r", "u", "e">>
                            ELSE <<"f", "a", "l", "s", "e">>
      [] x.t = "number" -> IntToChars(x.v)
      [] x.t = "string" -> x.v
      [] x.t = "array" -> JoinFrom(x.v, 1)
      [] x.t = "object" -> ObjectObjectChars
      [] x.t = "function" -> FunctionChars(x.v)

\* ToPrimitive: objects, arrays and functions become their string form.
ToPrimitive(x) ==
    IF x.t \in {"array", "object", "function"} THEN Str(ToStr(x)) ELSE x

\* StringToNumber on an already trimmed string: "" is 0, an optionally signed
\* run of decimal digits is that integer, anything else is NaN.  (The strings
\* the model reaches never start or end with white space and hold no ".",
\* exponent or radix prefix next to digits.)
StringToNumber(s) ==
    IF Len(s) = 0 THEN Num(0)
    ELSE IF AllDigits(s) THEN Num(CharsToNat(s))
    ELSE IF s[1] = "-" /\ AllDigits(Tail(s)) THEN Num(0 - CharsToNat(Tail(s)))
    ELSE IF s[1] = "+" /\ AllDigits(Tail(s)) THEN Num(CharsToNat(Tail(s)))
    ELSE NaN

\* ToNumber(x)
ToNumber(x) ==
    LET p == ToPrimitive(x)
    IN CASE p.t = "undefined" -> NaN
         [] p.t = "null" -> Num(0)
         [] p.t = "NaN" -> NaN
         [] p.t = "boolean" -> IF p.v THEN Num(1) ELSE Num(0)
         [] p.t = "number" -> p
         [] p.t = "string" -> StringToNumber(p.v)

\* x + y
Plus(x, y) ==
    LET px == ToPrimitive(x)
        py == ToPrimitive(y)
    IN IF px.t = "string" \/ py.t = "string"
       THEN Str(ToStr(px) \o ToStr(py))
       ELSE LET nx == ToNumber(px)
                ny == ToNumber(py)
            IN IF nx.t = "NaN" \/ ny.t = "NaN" THEN NaN ELSE Num(nx.v + ny.v)

\* x - y
Minus(x, y) ==
    LET nx == ToNumber(x)
        ny == ToNumber(y)
    IN IF nx.t = "NaN" \/ ny.t = "NaN" THEN NaN ELSE Num(nx.v - ny.v)

-----------------------------------------------------------------------------
(***************************************************************************)
(* Property access: object[p] and object[p] = value.                       *)
(***************************************************************************)
\* The name of the constructor a value inherits through its prototype chain.
ConstructorName(x) ==
    CASE x.t = "object" -> <<"O", "b", "j", "e", "c", "t">>
      [] x.t = "array" -> <<"A", "r", "r", "a", "y">>
      [] x.t = "string" -> <<"S", "t", "r", "i", "n", "g">>
      [] x.t \in {"number", "NaN"} -> <<"N", "u", "m", "b", "e", "r">>
      [] x.t = "boolean" -> <<"B", "o", "o", "l", "e", "a", "n">>
      [] x.t = "function" -> <<"F", "u", "n", "c", "t", "i", "o", "n">>

\* A property found on the prototype chain and not on the value itself.  Of
\* the inherited members the model keeps "constructor"; every other member
\* of Object.prototype ("toString", "hasOwnProperty", ...) reads the same way.
Inherited(x, p) == IF p = K_constructor THEN Fn(ConstructorName(x)) ELSE Undefined

\* Whether p is an own property of x.
HasOwn(x, p) ==
    CASE x.t = "object" -> HasKey(x.v, p)
      [] x.t = "array" -> \/ (IsIndex(p) /\ CharsToNat(p) < Len(x.v))
                          \/ p = K_length
                          \/ HasKey(x.x, p)
      [] x.t = "string" -> \/ (IsIndex(p) /\ CharsToNat(p) < Len(x.v))
                           \/ p = K_length
      [] x.t = "function" -> p = K_length
      [] OTHER -> FALSE

\* x[p] for x neither undefined nor null (on those the read throws a TypeError).
GetV(x, p) ==
    IF ~HasOwn(x, p) THEN Inherited(x, p)
    ELSE CASE x.t = "object" -> PropsGet(x.v, p)
           [] x.t = "array" ->
                IF p = K_length THEN Num(Len(x.v))
                ELSE IF IsIndex(p) THEN x.v[CharsToNat(p) + 1]
                ELSE PropsGet(x.x, p)
           [] x.t = "string" ->
                IF p = K_length THEN Num(Len(x.v))
                ELSE Str(<<x.v[CharsToNat(p) + 1]>>)
           \* Object.length, Array.length, String.length, ... are all 1
           [] x.t = "function" -> Num(1)

\* elems extended with holes to length n.
PadTo(elems, n) ==
    elems \o [i \in 1..(IF n > Len(elems) THEN n - Len(elems) ELSE 0) |-> Undefined]

\* x[p] = val for an object or an array x: the new x.  (Setting an array's
\* length to a natural number truncates or extends it.)
PutV(x, p, val) ==
    CASE x.t = "object" -> Obj(PropsPut(x.v, p, val))
      [] x.t = "array" ->
           IF IsIndex(p)
           THEN Arr([PadTo(x.v, CharsToNat(p) + 1) EXCEPT ![CharsToNat(p) + 1] = val], x.x)
           ELSE IF p = K_length
           THEN Arr(SubSeq(PadTo(x.v, val.v), 1, val.v), x.x)
           ELSE Arr(x.v, PropsPut(x.x, p, val))

\* delete x[p] for an object x.
DeleteV(x, p) ==
    CASE x.t = "object" -> Obj(PropsDel(x.v, p))
      [] x.t = "array" ->
           IF IsIndex(p) /\ CharsToNat(p) < Len(x.v)
           THEN Arr([x.v EXCEPT ![CharsToNat(p) + 1] = Undefined], x.x)
           ELSE Arr(x.v, PropsDel(x.x, p))
      [] OTHER -> x

-----------------------------------------------------------------------------
(***************************************************************************)
(* The path resolver.  Both functions are defined outside the class body,  *)
(* so they run as sloppy-mode code: an assignment to a property of a       *)
(* primitive is silently dropped there.                                    *)
(***************************************************************************)
\* The loop of getNestedProperty from position i: object && object[p].
RECURSIVE GetFrom(_, _, _)
GetFrom(object, properties, index) ==
    IF index > Len(properties) THEN object
    ELSE GetFrom(IF Truthy(object) THEN GetV(object, properties[index]) ELSE object,
                 properties, index + 1)

getNestedProperty(object, key) == GetFrom(object, split(key), 1)

\* The assignment object[p] = value that ends setNestedProperty:
\* [thrown, obj], obj being object after the assignment.
AssignLast(object, p, value) ==
    IF IsNullish(object) THEN [thrown |-> "TypeError", obj |-> object]
    ELSE IF object.t \notin {"object", "array"}
    THEN [thrown |-> "none", obj |-> object]
    ELSE IF object.t = "array" /\ p = K_length /\ ~(value.t = "number" /\ value.v >= 0)
    THEN [thrown |-> "RangeError", obj |-> object]
    ELSE [thrown |-> "none", obj |-> PutV(object, p, value)]

\* The walk of setNestedProperty from position index: object = object[p] for
\* every segment but the last, then the assignment.  The walk follows
\* references, so what it changes is changed inside the object it started from.
RECURSIVE SetFrom(_, _, _, _)
SetFrom(object, properties, index, value) ==
    IF index = Len(properties)
    THEN AssignLast(object, properties[index], value)
    ELSE IF IsNullish(object) THEN [thrown |-> "TypeError", obj |-> object]
    ELSE LET p == properties[index]
             child == GetV(object, p)
             r == SetFrom(child, properties, index + 1, value)
         IN IF r.thrown # "none" THEN [thrown |-> r.thrown, obj |-> object]
            ELSE IF HasOwn(object, p) /\ object.t \in {"object", "array"}
                    /\ child.t \in {"object", "array"}
            THEN [thrown |-> "none", obj |-> PutV(object, p, r.obj)]
            ELSE [thrown |-> "none", obj |-> object]

setNestedProperty(object, key, value) == SetFrom(object, split(key), 1, value)

-----------------------------------------------------------------------------
(***************************************************************************)
(* JSON text.  The backing file holds the text as its sequence of tokens;  *)
(* the white space JSON.stringify(value, null, 2) puts between tokens is a *)
(* function of the tokens and is left out.                                 *)
(***************************************************************************)
\* A token is tagged like a value: the tag field t, then the payload v.
TPunct(c) == [t |-> "punctuator", v |-> c]
TLit(w) == [t |-> "literal", v |-> w]
TNum(n) == [t |-> "numeral", v |-> n]
TStr(s) == [t |-> "quoted", v |-> s]

\* JSON.stringify omits a property whose value is undefined or a function
\* and writes such an array element, and NaN, as null.
Unserializable(x) == x.t \in {"undefined", "function"}

RECURSIVE Serialize(_)
RECURSIVE SerializeElems(_, _)
RECURSIVE SerializeProps(_, _, _)
SerializeElems(elems, i) ==
    IF i > Len(elems) THEN <<>>
    ELSE (IF i > 1 THEN <<TPunct(",")>> ELSE <<>>)
         \o Serialize(elems[i]) \o SerializeElems(elems, i + 1)

SerializeProps(props, i, first) ==
    IF i > Len(props) THEN <<>>
    ELSE IF Unserializable(props[i][2]) THEN SerializeProps(props, i + 1, first)
    ELSE (IF first THEN <<>> ELSE <<TPunct(",")>>)
         \o <<TStr(props[i][1]), TPunct(":")>> \o Serialize(props[i][2])
         \o SerializeProps(props, i + 1, FALSE)

Serialize(x) ==
    CASE x.t \in {"undefined", "function", "null", "NaN"} -> <<TLit("null")>>
      [] x.t = "boolean" -> <<TLit(IF x.v THEN "true" ELSE "false")>>
      [] x.t = "number" -> <<TNum(x.v)>>
      [] x.t = "string" -> <<TStr(x.v)>>
      [] x.t = "array" -> <<TPunct("[")>> \o SerializeElems(x.v, 1) \o <<TPunct("]")>>
      [] x.t = "object" -> <<TPunct("{")>> \o SerializeProps(x.v, 1, TRUE) \o <<TPunct("}")>>

\* JSON.stringify(value, null, 2) for a value that is an object, an array or null.
JSONstringify(value) == Serialize(value)

IsPunct(toks, i, c) == i <= Len(toks) /\ toks[i].t = "punctuator" /\ toks[i].v = c

ParseFail == [ok |-> FALSE, val |-> Undefined, next |-> 0]

RECURSIVE ParseValue(_, _)
RECURSIVE ParseElems(_, _, _)
RECURSIVE ParseMembers(_, _, _)
ParseElems(toks, i, acc) ==
    LET r == ParseValue(toks, i)
    IN IF ~r.ok THEN ParseFail
       ELSE IF IsPunct(toks, r.next, ",")
       THEN ParseElems(toks, r.next + 1, Append(acc, r.val))
       ELSE IF IsPunct(toks, r.next, "]")
       THEN [ok |-> TRUE, val |-> Arr(Append(acc, r.val), <<>>), next |-> r.next + 1]
       ELSE ParseFail

ParseMembers(toks, i, props) ==
    IF ~(i + 1 <= Len(toks) /\ toks[i].t = "quoted" /\ IsPunct(toks, i + 1, ":"))
    THEN ParseFail
    ELSE LET r == ParseValue(toks, i + 2)
         IN IF ~r.ok THEN ParseFail
            ELSE LET added == PropsPut(props, toks[i].v, r.val)
                 IN IF IsPunct(toks, r.next, ",")
                    THEN ParseMembers(toks, r.next + 1, added)
                    ELSE IF IsPunct(toks, r.next, "}")
                    THEN [ok |-> TRUE, val |-> Obj(added), next |-> r.next + 1]
                    ELSE ParseFail

ParseValue(toks, i) ==
    IF i > Len(toks) THEN ParseFail
    ELSE LET tk == toks[i]
         IN CASE tk.t = "numeral" -> [ok |-> TRUE, val |-> Num(tk.v), next |-> i + 1]
              [] tk.t = "quoted" -> [ok |-> TRUE, val |-> Str(tk.v), next |-> i + 1]
              [] tk.t = "literal" ->
                   [ok |-> TRUE,
                    val |-> IF tk.v = "null" THEN Null ELSE Bool(tk.v = "true"),
                    next |-> i + 1]
              [] IsPunct(toks, i, "[") ->
                   IF IsPunct(toks, i + 1, "]")
                   THEN [ok |-> TRUE, val |-> EmptyArr, next |-> i + 2]
                   ELSE ParseElems(toks, i + 1, <<>>)
              [] IsPunct(toks, i, "{") ->
                   IF IsPunct(toks, i + 1, "}")
                   THEN [ok |-> TRUE, val |-> EmptyObj, next |-> i + 2]
                   ELSE ParseMembers(toks, i + 1, <<>>)
              [] OTHER -> ParseFail

\* JSON.parse(text): [ok, val]; not ok is a SyntaxError.
JSONparse(toks) ==
    LET r == ParseValue(toks, 1)
    IN [ok |-> r.ok /\ r.next = Len(toks) + 1, val |-> r.val]

-----------------------------------------------------------------------------
(***************************************************************************)
(* The store.  A method's outcome is [thrown, data, file]: the error it    *)
(* threw ("none" when it returned), and the document and the backing file  *)
(* it leaves.  file is [exists, text].                                     *)
(***************************************************************************)
NoFile == [exists |-> FALSE, text |-> <<>>]

FileOf(text) == [exists |-> TRUE, text |-> text]

Throw(error, d) == [thrown |-> error, data |-> d, file |-> file]

\* save() that puts the document back as it was when the write fails: the
\* variant C20 is checked against.
save_restoring(d, written) ==
    CASE written = "ok" ->
           [thrown |-> "none", data |-> d, file |-> FileOf(JSONstringify(d))]
      [] written = "refused" -> [thrown |-> "IOError", data |-> data, file |-> file]
      [] written = "torn" -> [thrown |-> "IOError", data |-> data, file |-> FileOf(<<>>)]

\* save() that returns without writing: the variant C1 is checked against.
save_skipped(d, written) == [thrown |-> "none", data |-> d, file |-> file]
\* save(): fs.writeFileSync(jsonFilePath, JSON.stringify(this.data, null, 2)).
\* written is what the file system did with the write: "ok" carried it out,
\* "refused" failed before touching the file (EACCES), "torn" failed after
\* the file was opened for writing, which truncated it (ENOSPC).
save(d, written) ==
    CASE written = "ok" ->
           [thrown |-> "none", data |-> d, file |-> FileOf(JSONstringify(d))]
      [] written = "refused" -> [thrown |-> "IOError", data |-> d, file |-> file]
      [] written = "torn" -> [thrown |-> "IOError", data |-> d, file |-> FileOf(<<>>)]

\* fetchDataFromFile(): the parsed file replaces the document when typeof
\* says "object".
fetchDataFromFile(f) ==
    LET savedData == JSONparse(f.text)
    IN IF ~savedData.ok THEN [thrown |-> "SyntaxError", data |-> EmptyObj, file |-> f]
       ELSE [thrown |-> "none",
             data |-> IF typeof(savedData.val) = "object" THEN savedData.val ELSE EmptyObj,
             file |-> f]

\* new MyJsonDatabase(filePath) against the backing file f.
constructor(f) ==
    IF ~f.exists
    THEN [thrown |-> "none", data |-> EmptyObj,
          file |-> FileOf(<<TPunct("{"), TPunct("}")>>)]
    ELSE fetchDataFromFile(f)

get(key) == getNestedProperty(data, key)

has(key) == ~IsNullish(getNestedProperty(data, key))

\* Object.keys(x)
ObjectKeys(x) ==
    CASE x.t = "object" -> Keys(x.v)
      [] x.t = "array" -> [i \in 1..Len(x.v) |-> IntToChars(i - 1)] \o Keys(x.x)
      [] OTHER -> <<>>

all == LET ks == ObjectKeys(data)
       IN [i \in 1..Len(ks) |-> [key |-> ks[i], data |-> GetV(data, ks[i])]]

\* set that returns once the document is changed, before the file is
\* written: the variant C18 is checked against.
set_unsaved(key, value, written) ==
    LET r == setNestedProperty(data, key, value)
    IN IF r.thrown # "none" THEN Throw(r.thrown, data)
       ELSE [thrown |-> "none", data |-> r.obj, file |-> file]
set(key, value, written) ==
    LET r == setNestedProperty(data, key, value)
    IN IF r.thrown # "none" THEN Throw(r.thrown, data) ELSE save(r.obj, written)

delete(key, written) ==
    IF IsNullish(data) THEN Throw("TypeError", data)
    ELSE save(DeleteV(data, key), written)

\* if (!this.data[key]) this.data[key] = init
InitIfFalsy(d, key, init) ==
    IF ~Truthy(GetV(d, key)) THEN PutV(d, key, init) ELSE d

add(key, count, written) ==
    IF IsNullish(data) THEN Throw("TypeError", data)
    ELSE LET d1 == InitIfFalsy(data, key, Num(0))
         IN save(PutV(d1, key, Plus(GetV(d1, key), count)), written)

subtract(key, count, written) ==
    IF IsNullish(data) THEN Throw("TypeError", data)
    ELSE LET d1 == InitIfFalsy(data, key, Num(0))
         IN save(PutV(d1, key, Minus(GetV(d1, key), count)), written)

\* Only an array has a push method (and indexOf with splice).
push(key, element, written) ==
    IF IsNullish(data) THEN Throw("TypeError", data)
    ELSE LET d1 == InitIfFalsy(data, key, EmptyArr)
             target == GetV(d1, key)
         IN IF ~IsArr(target) THEN Throw("TypeError", d1)
            ELSE save(PutV(d1, key, Arr(Append(target.v, element), target.x)), written)

\* Array.prototype.indexOf(element): 0-based, -1 when absent.
ArrIndexOf(elems, element) ==
    LET hits == {i \in 1..Len(elems) : StrictEq(elems[i], element)}
    IN IF hits = {} THEN -1 ELSE (CHOOSE i \in hits : \A j \in hits : i <= j) - 1

\* elems.splice(index, 1)
Splice1(elems, index) == SubSeq(elems, 1, index) \o SubSeq(elems, index + 2, Len(elems))

\* elems.splice(index, 1) as JavaScript computes it for any index: a negative
\* index counts from the end, so splice(-1, 1) removes the last element.
SpliceAt(elems, index) ==
    IF index >= 0 THEN Splice1(elems, index)
    ELSE IF Len(elems) = 0 THEN elems
    ELSE Splice1(elems, IF Len(elems) + index < 0 THEN 0 ELSE Len(elems) + index)

\* pullOne without its "if (index > -1)" test: the variant C10 is checked against.
pullOne_unguarded(key, element, written) ==
    IF IsNullish(data) THEN Throw("TypeError", data)
    ELSE LET d1 == InitIfFalsy(data, key, EmptyArr)
             target == GetV(d1, key)
         IN CASE IsArr(target) ->
                   save(PutV(d1, key,
                             Arr(SpliceAt(target.v, ArrIndexOf(target.v, element)),
                                 target.x)),
                        written)
              [] OTHER -> Throw("TypeError", d1)
pullOne(key, element, written) ==
    IF IsNullish(data) THEN Throw("TypeError", data)
    ELSE LET d1 == InitIfFalsy(data, key, EmptyArr)
             target == GetV(d1, key)
         IN CASE IsArr(target) ->
                   LET index == ArrIndexOf(target.v, element)
                   IN IF index > -1
                      THEN save(PutV(d1, key, Arr(Splice1(target.v, index), target.x)),
                                written)
                      ELSE save(d1, written)
              [] target.t = "string" ->
                   \* String.prototype.indexOf finds a substring; a string has no splice
                   IF StrIndexOf(target.v, ToStr(element)) > -1
                   THEN Throw("TypeError", d1)
                   ELSE save(d1, written)
              [] OTHER -> Throw("TypeError", d1)

\* i < value.length
IndexBelowLength(i, value) ==
    LET n == ToNumber(GetV(value, K_length))
    IN n.t = "number" /\ i < n.v

\* The while loop of pullMany with "++i" run after a splice too, which skips
\* the element that moved into position i: the variant C9 is checked against.
RECURSIVE PullManyLoop_skipping(_, _, _)
PullManyLoop_skipping(value, i, element) ==
    IF ~IndexBelowLength(i, value) THEN [thrown |-> "none", val |-> value]
    ELSE IF StrictEq(GetV(value, IntToChars(i)), element)
    THEN IF IsArr(value)
         THEN PullManyLoop_skipping(Arr(Splice1(value.v, i), value.x), i + 1, element)
         ELSE [thrown |-> "TypeError", val |-> value]
    ELSE PullManyLoop_skipping(value, i + 1, element)

\* The while loop of pullMany on value from position i: [thrown, val].
RECURSIVE PullManyLoop(_, _, _)
PullManyLoop(value, i, element) ==
    IF ~IndexBelowLength(i, value) THEN [thrown |-> "none", val |-> value]
    ELSE IF StrictEq(GetV(value, IntToChars(i)), element)
    THEN IF IsArr(value)
         THEN PullManyLoop(Arr(Splice1(value.v, i), value.x), i, element)
         ELSE [thrown |-> "TypeError", val |-> value]
    ELSE PullManyLoop(value, i + 1, element)

pullMany(key, element, written) ==
    IF IsNullish(data) THEN Throw("TypeError", data)
    ELSE LET d1 == InitIfFalsy(data, key, EmptyArr)
             r == PullManyLoop(GetV(d1, key), 0, element)
         IN IF r.thrown # "none" THEN Throw(r.thrown, d1)
            ELSE save(IF IsArr(r.val) THEN PutV(d1, key, r.val) ELSE d1, written)

clear(key, written) ==
    IF IsNullish(data) THEN Throw("TypeError", data)
    ELSE IF ~Truthy(GetV(data, key)) THEN Throw("Error", data)
    ELSE save(PutV(data, key, EmptyObj), written)

clearAll(written) == save(EmptyObj, written)

-----------------------------------------------------------------------------
(***************************************************************************)
(* The calls a client makes.                                               *)
(***************************************************************************)
X_x == <<"x">>

\* The keys passed to the methods: a plain key, an integer-like key, a dotted
\* key (a nested path for set/get/has, one top-level name elsewhere) and a key
\* that is also the name of a member of Object.prototype.
CallKeys == {K_a, K_1, K_ab, K_constructor}

\* The values passed to set.
SetValues ==
    {Num(0), Num(1), Str(<<>>), Str(X_x), Bool(TRUE), Null, EmptyObj,
     Arr(<<Num(1), Num(1), Str(X_x)>>, <<>>)}

\* The amounts passed to add and subtract.
Counts == {Num(5), Num(2), Str(X_x)}

\* The elements passed to push, pullOne and pullMany.
Elements == {Num(1), Str(X_x)}

NoKey == <<>>

\* './backups/'
DefaultBackups == Str(<<".", "/", "b", "a", "c", "k", "u", "p", "s", "/">>)

\* The interval of the snapshot timer where options.backups.interval is not
\* given, in milliseconds.
DefaultInterval == 86400000

\* this.options.backups && this.options.backups.enabled
BackupsEnabled(opts) ==
    Truthy(opts.backups) /\ Truthy(GetV(opts.backups, K_enabled))

\* x || y
Or(x, y) == IF Truthy(x) THEN x ELSE y

\* The directories that exist once the constructor has looked at its
\* options: with backups enabled it makes the backup directory.
BackupsSetUp(opts, ds) ==
    IF BackupsEnabled(opts)
    THEN ds \cup {Or(GetV(opts.backups, K_path), DefaultBackups)}
    ELSE ds

\* `backup-${Date.now()}.json`
BackupName(time) ==
    <<"b", "a", "c", "k", "u", "p", "-">> \o IntToChars(time)
        \o <<".", "j", "s", "o", "n">>

\* makeSnapshot(path) at the time Date.now() gives: what it threw, and the
\* directories and the snapshot files it leaves.  path is the parameter, a
\* string once the default is taken, so path.join is a property read on a
\* string; calling what is not a function throws a TypeError before
\* fs.writeFileSync is entered.  fs.writeFileSync is given no data.
makeSnapshot(path, time) ==
    IF ~Truthy(path) /\ IsNullish(options.backups)
    THEN [thrown |-> "TypeError", dirs |-> dirs, snapshots |-> snapshots]
    ELSE LET p == IF Truthy(path) THEN path
                  ELSE Or(GetV(options.backups, K_path), DefaultBackups)
             made == dirs \cup {p}
             join == GetV(p, K_join)
         IN IF typeof(join) # "function"
            THEN [thrown |-> "TypeError", dirs |-> made, snapshots |-> snapshots]
            ELSE [thrown |-> "none", dirs |-> made,
                  snapshots |-> snapshots \cup
                      {[dir |-> p, name |-> BackupName(time),
                        text |-> <<TLit("undefined")>>]}]

\* The names of the members of the object that is the root of the JSON text
\* toks, in the order of the text, from token i on at nesting depth.
RECURSIVE TopNames(_, _, _)
TopNames(toks, i, depth) ==
    IF i > Len(toks) THEN <<>>
    ELSE LET tok == toks[i]
             opens == tok.t = "punctuator" /\ tok.v \in {"{", "["}
             closes == tok.t = "punctuator" /\ tok.v \in {"}", "]"}
             names == /\ depth = 1
                      /\ IsPunct(toks, 1, "{")
                      /\ tok.t = "quoted"
                      /\ IsPunct(toks, i + 1, ":")
             rest == TopNames(toks, i + 1,
                              IF opens THEN depth + 1
                              ELSE IF closes THEN depth - 1 ELSE depth)
         IN IF names THEN <<tok.v>> \o rest ELSE rest

\* The own keys of the document d that the constructor took from the file f,
\* in the order JSON.parse inserted them: the order of the text (a name that
\* occurs twice keeps its first place), the elements of an array in order.
ParsedOrder(d, f) ==
    IF ~IsObj(d) \/ ~f.exists THEN ObjectKeys(d)
    ELSE LET names == TopNames(f.text, 1, 0)
             First(i) == HasOwn(d, names[i]) /\ \A j \in 1..(i - 1) : names[j] # names[i]
             Pick[i \in 0..Len(names)] ==
                 IF i = 0 THEN <<>>
                 ELSE IF First(i) THEN Append(Pick[i - 1], names[i]) ELSE Pick[i - 1]
         IN Pick[Len(names)]

\* The own keys of d in the order they were inserted: those of before that d
\* still holds keep their places, a key d gained comes after them.
InsertionOrder(before, d) ==
    LET Kept(k) == HasOwn(d, k)
        kept == SelectSeq(before, Kept)
        Gained(k) == \A i \in 1..Len(kept) : kept[i] # k
    IN kept \o SelectSeq(ObjectKeys(d), Gained)

\* The call returns (or throws): the state it leaves, and what it was.
Return(op, key, arg, outcome) ==
    /\ calls < MaxCalls
    /\ running
    /\ data' = outcome.data
    /\ file' = outcome.file
    /\ last' = [op |-> op, key |-> key, arg |-> arg, thrown |-> outcome.thrown]
    /\ old' = data
    /\ oldFile' = file
    /\ calls' = calls + 1
    /\ inserted' = InsertionOrder(inserted, outcome.data)
    /\ UNCHANGED <<options, dirs, snapshots, running, now>>

Set(key, value, written) == Return("set", key, value, set(key, value, written))
Delete(key, written) == Return("delete", key, Undefined, delete(key, written))
Add(key, count, written) == Return("add", key, count, add(key, count, written))
Subtract(key, count, written) ==
    Return("subtract", key, count, subtract(key, count, written))
Push(key, element, written) ==
    Return("push", key, element, push(key, element, written))
PullOne(key, element, written) ==
    Return("pullOne", key, element, pullOne(key, element, written))
PullMany(key, element, written) ==
    Return("pullMany", key, element, pullMany(key, element, written))
Clear(key, written) == Return("clear", key, Undefined, clear(key, written))
ClearAll(written) == Return("clearAll", NoKey, Undefined, clearAll(written))

\* The state new MyJsonDatabase(filePath, opts) leaves where the backing file
\* is f and the directories ds exist.  A constructor that throws leaves no
\* store to call.
Constructed(opts, f, ds) ==
    LET made == constructor(f)
    IN /\ data = made.data
       /\ file = made.file
       /\ last = [op |-> "constructor", key |-> NoKey, arg |-> Undefined,
                  thrown |-> made.thrown]
       /\ old = made.data
       /\ oldFile = f
       /\ calls = 0
       /\ inserted = ParsedOrder(made.data, f)
       /\ options = opts
       /\ dirs = BackupsSetUp(opts, ds)
       /\ snapshots = {}
       /\ running = (made.thrown = "none")
       /\ now = 0

\* The process ends and a new one constructs the store against the same file,
\* with the same options.
Restart ==
    LET made == constructor(file)
    IN /\ calls < MaxCalls
       /\ data' = made.data
       /\ file' = made.file
       /\ last' = [op |-> "constructor", key |-> NoKey, arg |-> Undefined,
                   thrown |-> made.thrown]
       /\ old' = data
       /\ oldFile' = file
       /\ calls' = calls + 1
       /\ inserted' = ParsedOrder(made.data, file)
       /\ dirs' = BackupsSetUp(options, dirs)
       /\ running' = (made.thrown = "none")
       /\ UNCHANGED <<options, snapshots, now>>

\* The timer set by the constructor fires, the interval having passed: the
\* callback calls makeSnapshot().  Nothing catches what the callback throws;
\* the process ends, unless the program that holds the store has installed
\* an uncaughtException handler (handled).
Tick(handled) ==
    LET r == makeSnapshot(Undefined, now + DefaultInterval)
    IN /\ calls < MaxCalls
       /\ running
       /\ BackupsEnabled(options)
       /\ now' = now + DefaultInterval
       /\ dirs' = r.dirs
       /\ snapshots' = r.snapshots
       /\ running' = (r.thrown = "none" \/ handled)
       /\ last' = [op |-> "tick", key |-> NoKey, arg |-> Undefined,
                   thrown |-> r.thrown]
       /\ old' = data
       /\ oldFile' = file
       /\ calls' = calls + 1
       /\ UNCHANGED <<data, file, inserted, options>>

\* The program calls makeSnapshot(path) itself; what it throws goes to the
\* caller.
MakeSnapshot(path) ==
    LET r == makeSnapshot(path, now)
    IN /\ calls < MaxCalls
       /\ running
       /\ dirs' = r.dirs
       /\ snapshots' = r.snapshots
       /\ last' = [op |-> "makeSnapshot", key |-> NoKey, arg |-> path,
                   thrown |-> r.thrown]
       /\ old' = data
       /\ oldFile' = file
       /\ calls' = calls + 1
       /\ UNCHANGED <<data, file, inserted, options, running, now>>

\* The store constructed without options where no backing file exists.
Init == Constructed([backups |-> Undefined], NoFile, {})

\* In Spec the file system carries out every write.
Next ==
    \/ \E key \in CallKeys, value \in SetValues : Set(key, value, "ok")
    \/ \E key \in CallKeys : Delete(key, "ok")
    \/ \E key \in CallKeys, count \in Counts : Add(key, count, "ok")
    \/ \E key \in CallKeys, count \in Counts : Subtract(key, count, "ok")
    \/ \E key \in CallKeys, element \in Elements : Push(key, element, "ok")
    \/ \E key \in CallKeys, element \in Elements : PullOne(key, element, "ok")
    \/ \E key \in CallKeys, element \in Elements : PullMany(key, element, "ok")
    \/ \E key \in CallKeys : Clear(key, "ok")
    \/ ClearAll("ok")
    \/ Restart

Spec == Init /\ [][Next]_vars

-----------------------------------------------------------------------------
(***************************************************************************)
(* What the claims speak of.                                               *)
(***************************************************************************)
Mutators ==
    {"set", "delete", "add", "subtract", "push", "pullOne", "pullMany",
     "clear", "clearAll"}

\* The last call was a mutating call and it returned.
Succeeded == last.op \in Mutators /\ last.thrown = "none"

\* The failed call changed neither the document nor the backing file.
NothingChanged == data = old /\ file = oldFile

\* What this.data[key] gave for the last call's key before the call and gives
\* after it (an own property, or else a member inherited from Object.prototype).
Before == GetV(old, last.key)
After == GetV(data, last.key)

\* The last call's key was a top-level key of the document before the call.
Held == HasOwn(old, last.key)

\* C1: after any successful mutating call returns, the backing file's contents
\* equal the serialization of the in-memory document.
C1_FileIsSerializedDocument ==
    Succeeded => file = FileOf(JSONstringify(data))

\* A push that returned and left a document that is not the empty one.
C1_Witness ==
    /\ Succeeded
    /\ last.op = "push"
    /\ data # EmptyObj
    /\ file # oldFile

\* C2: set(k, v) followed immediately by get(k) returns a value equal to v, for
\* every key k, nested paths included, in any document; after set("a.b", v),
\* get("a") is a mapping that holds b mapped to v.
C2_SetThenGet ==
    last.op = "set" =>
        /\ get(last.key) = last.arg
        /\ last.key = K_ab =>
              /\ IsObj(get(K_a))
              /\ HasKey(get(K_a).v, K_b)
              /\ PropsGet(get(K_a).v, K_b) = last.arg

\* C3: after successful mutating calls, a store constructed against the same
\* backing file holds a document equal to the in-memory document.
C3_RestartRoundTrip ==
    Succeeded => constructor(file).data = data

\* C4: clear(key) throws exactly when key is not a top-level key, and then
\* changes nothing; for every key that exists it returns and leaves an empty
\* mapping at the key.
C4_ClearExactlyWhenMissing ==
    last.op = "clear" =>
        IF Held
        THEN last.thrown = "none" /\ After = EmptyObj
        ELSE last.thrown = "Error" /\ NothingChanged

\* C5: add(key, n) with a number n leaves n at a key that was absent or held a
\* falsy value, and old + n at a key that held a number; subtract(key, m)
\* leaves 0 - m and old - m; get(key) returns that value (for a key without a
\* dot).
C5_AddSubtract ==
    (last.op \in {"add", "subtract"} /\ last.arg.t = "number"
       /\ (~Held \/ ~Truthy(Before) \/ Before.t = "number")) =>
        LET base == IF Held /\ Before.t = "number" THEN Before.v ELSE 0
            want == IF last.op = "add" THEN Num(base + last.arg.v)
                    ELSE Num(base - last.arg.v)
        IN /\ last.thrown = "none"
           /\ After = want
           /\ last.key # K_ab => get(last.key) = want

\* C6: add and subtract throw when the amount is not a number or when the key
\* holds something that is not a number (a string, a sequence, a mapping), and
\* then change nothing; the value they leave at the key is always a number.
C6_AddSubtractTypeMismatch ==
    last.op \in {"add", "subtract"} =>
        /\ (last.arg.t # "number" \/ (Held /\ Truthy(Before) /\ Before.t # "number")) =>
              last.thrown # "none" /\ NothingChanged
        /\ last.thrown = "none" => After.t = "number"

\* C7: push throws whenever the key exists and does not hold a sequence (0, the
\* empty string and null included), and then changes nothing.
C7_PushTypeMismatch ==
    (last.op = "push" /\ Held /\ ~IsArr(Before)) =>
        last.thrown # "none" /\ NothingChanged

\* C8: push(key, x) on an absent key leaves the one-element sequence [x]; on a
\* key holding a sequence s it leaves s with x appended as the last element.
C8_PushAppends ==
    last.op = "push" =>
        /\ ~Held =>
              last.thrown = "none" /\ After = Arr(<<last.arg>>, <<>>)
        /\ IsArr(Before) =>
              last.thrown = "none" /\ After = Arr(Append(Before.v, last.arg), Before.x)

\* s without its first element equal to e.
RECURSIVE WithoutFirst(_, _)
WithoutFirst(s, e) ==
    IF s = <<>> THEN <<>>
    ELSE IF Head(s) = e THEN Tail(s)
    ELSE <<Head(s)>> \o WithoutFirst(Tail(s), e)

\* s without every element equal to e.
RECURSIVE WithoutAll(_, _)
WithoutAll(s, e) ==
    IF s = <<>> THEN <<>>
    ELSE (IF Head(s) = e THEN <<>> ELSE <<Head(s)>>) \o WithoutAll(Tail(s), e)

\* C9: on a key holding a sequence s, pullOne(key, e) leaves s without its first
\* element equal to e and pullMany(key, e) leaves s without every element equal
\* to e, the other elements keeping their order.
C9_PullRemoves ==
    (last.op \in {"pullOne", "pullMany"} /\ IsArr(Before)) =>
        /\ last.thrown = "none"
        /\ IsArr(After)
        /\ After.v = IF last.op = "pullOne" THEN WithoutFirst(Before.v, last.arg)
                     ELSE WithoutAll(Before.v, last.arg)

\* pullMany(key, 1) has returned on [1, 1, "x"], leaving ["x"].
C9_Witness ==
    /\ last.op = "pullMany"
    /\ last.arg = Num(1)
    /\ IsArr(Before)
    /\ Before.v = <<Num(1), Num(1), Str(X_x)>>
    /\ After.v = <<Str(X_x)>>

\* No element equal to the last call's element was at its key.
NoneFound == ~(IsArr(Before) /\ ArrIndexOf(Before.v, last.arg) > -1)

-----------------------------------------------------------------------------
\* What all() returns, key by key.
AllKeys == LET recs == all IN [i \in 1..Len(recs) |-> recs[i].key]

\* C11: all() returns exactly one record {key, data} for every top-level key
\* of the document, with data that key's current value, and the records are
\* in the order in which the keys were first inserted, whatever the key
\* strings are.
C11_AllInInsertionOrder ==
    LET recs == all
    IN /\ \A i, j \in 1..Len(recs) : recs[i].key = recs[j].key => i = j
       /\ \A k \in CallKeys :
              HasOwn(data, k) <=> \E i \in 1..Len(recs) : recs[i].key = k
       /\ \A i \in 1..Len(recs) :
              /\ HasOwn(data, recs[i].key)
              /\ recs[i].data = PropsGet(data.v, recs[i].key)
       /\ AllKeys = inserted

\* The paths passed to get and has: the keys of the calls and a key that is
\* never stored.
ReadPaths == CallKeys \cup {K_b}

\* C12: clearAll() replaces the whole document with an empty mapping: right
\* after it all() is empty, has(k) is false for every path k, and the backing
\* file holds the serialized empty mapping.
C12_ClearAllEmpties ==
    last.op = "clearAll" =>
        /\ last.thrown = "none"
        /\ all = <<>>
        /\ \A k \in ReadPaths : ~has(k)
        /\ file = FileOf(<<TPunct("{"), TPunct("}")>>)

\* C13: delete(key) removes the top-level key named key, so that afterwards
\* has(key) is false and all() has no record for it; it changes nothing in
\* the document when the key is absent, leaves every other top-level entry
\* as it was, and removes no nested entry: after delete("a.b") get("a.b")
\* gives what it gave before.
C13_DeleteRemovesTopLevel ==
    last.op = "delete" =>
        /\ last.thrown = "none"
        /\ ~HasOwn(data, last.key)
        /\ StrIndexOf(last.key, <<".">>) = -1 => ~has(last.key)
        /\ \A i \in 1..Len(all) : all[i].key # last.key
        /\ ~HasOwn(old, last.key) => data = old
        /\ \A k \in CallKeys \ {last.key} :
              /\ HasOwn(data, k) <=> HasOwn(old, k)
              /\ HasOwn(old, k) => GetV(data, k) = GetV(old, k)
        /\ last.key = K_ab =>
              getNestedProperty(data, K_ab) = getNestedProperty(old, K_ab)

\* Every segment of the path properties, from segment index on, names an own
\* property of the value reached so far, starting at x.
RECURSIVE Resolves(_, _, _)
Resolves(x, properties, index) ==
    \/ index > Len(properties)
    \/ /\ HasOwn(x, properties[index])
       /\ Resolves(GetV(x, properties[index]), properties, index + 1)

\* C14: has(path) is true exactly when get(path) gives a value that is
\* present and not null; has is true for a stored falsy value (0, the empty
\* string, false) and false whenever a segment of the path is missing.
C14_HasIffPresent ==
    running =>
        \A p \in ReadPaths :
            /\ has(p) <=> get(p) \notin {Undefined, Null}
            /\ (/\ Resolves(data, split(p), 1)
                /\ get(p) \in {Num(0), Str(<<>>), Bool(FALSE)}) => has(p)
            /\ ~Resolves(data, split(p), 1) => ~has(p)

-----------------------------------------------------------------------------
(***************************************************************************)
(* The store constructed on a file it did not write.                       *)
(***************************************************************************)
\* The roots of the JSON texts a file of another origin may hold.
Roots ==
    {EmptyObj, Obj(<<<<K_a, Num(1)>>>>), Null, Arr(<<Num(1)>>, <<>>), Num(1),
     Str(X_x), Bool(TRUE)}

\* The backing file when the store is constructed: absent, holding a JSON
\* text, or empty (which is not a JSON text).
FoundFiles == {NoFile, FileOf(<<>>)} \cup {FileOf(JSONstringify(root)) : root \in Roots}

InitLoad == \E f \in FoundFiles : Constructed([backups |-> Undefined], f, {})

SpecLoad == InitLoad /\ [][Next]_vars

\* C15: the root of the document is a mapping in every reachable state: the
\* constructor leaves the file holding {} and the document empty when the
\* file is absent, takes the parsed content when it is a mapping, drops a
\* parsed root that is not a mapping (null, a sequence, a number, a string,
\* a boolean) and keeps the document an empty mapping; no later call makes
\* the root anything else.
C15_RootIsMapping ==
    /\ IsObj(data)
    /\ (last.op = "constructor" /\ last.thrown = "none") =>
           IF ~oldFile.exists
           THEN data = EmptyObj /\ file = FileOf(<<TPunct("{"), TPunct("}")>>)
           ELSE LET parsed == JSONparse(oldFile.text).val
                IN data = IF IsObj(parsed) THEN parsed ELSE EmptyObj

-----------------------------------------------------------------------------
(***************************************************************************)
(* The store constructed with backups enabled.                             *)
(***************************************************************************)
\* { backups: { enabled: true } }
BackupOptions == [backups |-> Obj(<<<<K_enabled, Bool(TRUE)>>>>)]

\* The path arguments of makeSnapshot: none, and a directory of the caller.
SnapshotPaths == {Undefined, Str(<<".", "/", "s", "/">>)}

InitBackups == Constructed(BackupOptions, NoFile, {})

NextBackups ==
    \/ Next
    \/ \E handled \in BOOLEAN : Tick(handled)
    \/ \E path \in SnapshotPaths : MakeSnapshot(path)

SpecBackups == InitBackups /\ [][NextBackups]_vars

\* The last step was a snapshot attempt: a timer tick or a makeSnapshot call.
Snapshotted == last.op \in {"tick", "makeSnapshot"}

\* The directory the last snapshot attempt was to write into.
SnapshotDir ==
    IF Truthy(last.arg) THEN last.arg
    ELSE Or(GetV(options.backups, K_path), DefaultBackups)

\* C16: with backups enabled every timer tick and every makeSnapshot call
\* makes sure the backup directory exists and then writes a new file named
\* backup-<epoch-millis>.json in it, holding a copy of the serialized
\* document, that is what the backing file holds at that moment.
C16_SnapshotWritten ==
    Snapshotted =>
        /\ last.thrown = "none"
        /\ SnapshotDir \in dirs
        /\ \E s \in snapshots :
              /\ s.dir = SnapshotDir
              /\ s.name = BackupName(now)
              /\ s.text = file.text

\* C17: a tick whose snapshot attempt fails does not stop the timer loop and
\* does not stop the store: the process that runs the timer and serves the
\* calls is still there after it.
C17_TickFailureContained ==
    (last.op = "tick" /\ last.thrown # "none") => running

\* C18: calls and timer callbacks run one at a time, each to its end, and a
\* mutating call changes the document and writes the file in the same run:
\* wherever a tick can run the backing file holds the serialized document,
\* and the state a tick ran in was never one with the document changed and
\* the file not yet written.
C18_TickSeesSavedDocument ==
    /\ (running /\ BackupsEnabled(options)) => file = FileOf(JSONstringify(data))
    /\ last.op = "tick" => oldFile = FileOf(JSONstringify(old))

\* A tick ran after a call had changed the document.
C18_Witness == last.op = "tick" /\ old # EmptyObj

-----------------------------------------------------------------------------
\* The last call was set("a.b", value) where the segment a did not resolve to
\* a mapping: it was absent, or held a number, a string, a boolean or null.
SetThroughNonMapping ==
    /\ last.op = "set"
    /\ last.key = K_ab
    /\ \/ ~HasOwn(old, K_a)
       \/ GetV(old, K_a).t \in {"number", "NaN", "string", "boolean", "null", "undefined"}

\* C19: set(path, value) on a path with a non-final segment that does not
\* resolve to an existing mapping never returns without having stored the
\* value: it throws to the caller, and the failed call leaves the document
\* and the backing file as they were.
C19_SetFailsOnUnresolvedPath ==
    SetThroughNonMapping => (last.thrown # "none" /\ NothingChanged)

-----------------------------------------------------------------------------
(***************************************************************************)
(* The store on a file system whose writes can fail.                       *)
(***************************************************************************)
\* What the file system does with a write.
WriteOutcomes == {"ok", "refused", "torn"}

\* The arguments of the calls made against the failing file system.
IOKeys == {K_a, K_ab}
IOValues == {Num(1), Null}
IOCounts == {Num(5)}
IOElements == {Num(1)}

NextIO ==
    \E written \in WriteOutcomes :
        \/ \E key \in IOKeys, value \in IOValues : Set(key, value, written)
        \/ \E key \in IOKeys : Delete(key, written)
        \/ \E key \in IOKeys, count \in IOCounts : Add(key, count, written)
        \/ \E key \in IOKeys, count \in IOCounts : Subtract(key, count, written)
        \/ \E key \in IOKeys, element \in IOElements : Push(key, element, written)
        \/ \E key \in IOKeys, element \in IOElements : PullOne(key, element, written)
        \/ \E key \in IOKeys, element \in IOElements : PullMany(key, element, written)
        \/ \E key \in IOKeys : Clear(key, written)
        \/ ClearAll(written)
        \/ Restart

SpecIO == Init /\ [][NextIO]_vars

\* The last call was a mutating call and it threw.
Failed == last.op \in Mutators /\ last.thrown # "none"

\* C20 as stated: a mutating call that fails for any reason, a failed write
\* to the backing file included, leaves the in-memory document exactly as it
\* was before the call.
C20_FailedCallChangesNothing == Failed => data = old

\* C20 as the code has it: a mutating call that throws before its save leaves
\* the document and the backing file as they were; a call whose write to the
\* backing file fails has already changed the in-memory document and keeps
\* the change, the file being left as it was or truncated, so that an add
\* of c to a stored number n leaves n + c in memory and a repeated call adds
\* c again.
C20_FailedWriteKeepsChange ==
    Failed =>
        IF last.thrown = "IOError"
        THEN /\ file \in {oldFile, FileOf(<<>>)}
             /\ (/\ last.op = "add"
                 /\ Held
                 /\ Before.t = "number"
                 /\ last.arg.t = "number") => After = Num(Before.v + last.arg.v)
        ELSE NothingChanged

\* An add to a stored number failed in the write.
C20_Witness ==
    /\ last.op = "add"
    /\ last.thrown = "IOError"
    /\ Held
    /\ Before.t = "number"
    /\ data # old

====
